---- MODULE Spec2Model ----
(***************************************************************************)
(* Pixel Buddy: the pet store (table pets, table memories), the HTTP       *)
(* handlers of server.js that read and write it, and the browser client    *)
(* (class PixelBuddy) with its decay and sync timers.                      *)
(*                                                                         *)
(* Numbers that JavaScript holds as floats (request bodies, the client's   *)
(* in-memory stats) are kept in half units: the value v is stored as 2*v,  *)
(* so 50.5 is 101.  Columns of type INTEGER hold plain integers.           *)
(*                                                                         *)
(* The specifications share the variables and the initial state.  Where a  *)
(* property is about what one request does, a handler is one step: Spec is *)
(* pet care on the server (creation, action, rename, sync, talk),          *)
(* SpecSession adds the browser session (fetch, decay tick, sync, action), *)
(* and SpecLog fills a memory log past the limits of the queries that read *)
(* it.  Where a property is about requests that overlap, a handler is      *)
(* stepped at its await points: SpecAccess (first accesses of one user),   *)
(* SpecTalk (talk around the call to the LLM), SpecWorld (open/close world *)
(* and visit), SpecVisit (several visitors) and SpecExhaust (the whole     *)
(* code generation loop, with the fairness of the event loop), and         *)
(* SpecFlight (the session's sync and action requests between their        *)
(* sending and their handling).  SpecAccounts is the account routes under  *)
(* /api/auth with utils/jwt.js, utils/audit.js and middleware/auth.js, a   *)
(* handler being one step; SpecProcess is the server process under         *)
(* SIGTERM and SIGINT.                                                     *)
(***************************************************************************)
EXTENDS Integers, Sequences, FiniteSets, TLC

VARIABLES
    pets,          \* table pets: id -> row
    memories,      \* table memories, in insertion order
    pets_id_seq,   \* the SERIAL sequence behind pets.id (last value handed out)
    now,           \* the database clock read by NOW(): it has advanced every
                   \* time a statement that stamps a row runs
    worldReq,      \* per pet id: the POST /api/pet/:id/world request of its owner
    visitReq,      \* per visitor: the GET /api/world/:code request of that visitor
    getReq,        \* per caller: the GET /api/pet/:userId request of that caller
    talkReq,       \* the POST /api/pet/:id/talk request in flight
    client,        \* PixelBuddy.pet of the one browser session (half units)
    ticks,         \* decay ticks fired so far (exploration bound only)
    syncReq,       \* the session's POST /api/pet/:id/sync requests in flight
    actionReq,     \* the session's POST /api/pet/:id/action request in flight
    users,         \* table users: id -> row
    users_id_seq,  \* the SERIAL sequence behind users.id
    audit_log,     \* table audit_log, in insertion order
    issued,        \* the tokens the server has handed out so far
    proc           \* the server process: its database pool, and whether it has exited

\* the account tables, the session's requests in flight
accountVars == << users, users_id_seq, audit_log, issued >>
sessionReqs == << syncReq, actionReq >>

\* the pet store and the requests on it
petVars ==
    << pets, memories, pets_id_seq, now, worldReq, visitReq, getReq, talkReq,
       client, ticks >>

vars ==
    << pets, memories, pets_id_seq, now, worldReq, visitReq, getReq, talkReq,
       client, ticks, syncReq, actionReq, users, users_id_seq, audit_log, issued,
       proc >>

----------------------------------------------------------------------------
(* Bounds of the exploration *)

MaxMem == 3
MaxTicks == 1
MaxVisits == 1
MaxRetry == 2
MaxCount == 2
MaxLog == 52
MaxAccounts == 1
MaxAudit == 2
MaxInFlight == 2

(* Program constants *)

MaxAttempts == 100
MemoriesLimit == 50
PromptLimit == 5

Users == {"u1", "u2"}
ClientUser == "u1"
\* ids a request may name: every id the sequence can hand out, and one more
PetIds == 1..(Cardinality(Users) + 1)
\* ids of pets whose owner uses the world toggle
WorldIds == 1..Cardinality(Users)
Visitors == {"v1", "v2"}
\* the visitors that act while world requests race
WorldVisitors == {"v1"}

Null == <<>>
StatNames == {"hunger", "happiness", "energy", "hygiene"}

----------------------------------------------------------------------------
(* SQL and JavaScript primitives *)

GREATEST(a, b) == IF a >= b THEN a ELSE b
LEAST(a, b) == IF a <= b THEN a ELSE b

\* Math.max / Math.min on half units
MathMax(a, b) == IF a >= b THEN a ELSE b
MathMin(a, b) == IF a <= b THEN a ELSE b

\* Math.round on a half-unit value: nearest integer, ties towards +infinity
MathRound(h) == (h + 1) \div 2

\* a clamp that forgets the upper bound
clampLowerOnly(val) == MathMax(0, val)

\* const clamp = (val) => Math.max(0, Math.min(100, val))
clamp(val) == MathMax(0, MathMin(2 * 100, val))

\* an INTEGER column accepts a numeric parameter only if it is a whole number
IsInteger(h) == h % 2 = 0

\* a value of a JSON or form body: a string (its characters), a boolean, an
\* array of one string (the characters of that string), or undefined when
\* the key is absent
JsString(chars) == [ type |-> "string", chars |-> chars, bool |-> FALSE ]
JsBoolean(b) == [ type |-> "boolean", chars |-> << >>, bool |-> b ]
JsUndefined == [ type |-> "undefined", chars |-> << >>, bool |-> FALSE ]
JsArrayOfOne(chars) == [ type |-> "array", chars |-> chars, bool |-> FALSE ]

\* JavaScript truthiness, as in if (v) and !v
ToBoolean(v) ==
    IF v.type = "boolean" THEN v.bool
    ELSE IF v.type = "string" THEN v.chars # << >>
    ELSE IF v.type = "array" THEN TRUE
    ELSE FALSE

\* v.length > n: the code units of a string, the elements of an array;
\* undefined > n is false
LengthExceeds(v, n) ==
    IF v.type = "string" THEN Len(v.chars) > n
    ELSE IF v.type = "array" THEN 1 > n
    ELSE FALSE

\* the text node-pg sends for a query parameter: a string as it is, an array
\* as an array literal with its elements quoted
PgText(v) ==
    IF v.type = "string" THEN v.chars
    ELSE IF v.type = "array" THEN << "{", "\"" >> \o v.chars \o << "\"", "}" >>
    ELSE IF v.type = "boolean" THEN
        (IF v.bool THEN << "t", "r", "u", "e" >> ELSE << "f", "a", "l", "s", "e" >>)
    ELSE << >>

\* a column of type VARCHAR(n) takes a text of at most n characters
VarcharFits(text, n) == Len(text) <= n

\* a parameter bound to a BOOLEAN column: booleans as they are, strings by
\* PostgreSQL's boolean input
PgBooleanOk(v) ==
    \/ v.type = "boolean"
    \/ v.type = "string" /\ v.chars \in { << "t", "r", "u", "e" >>, << "f", "a", "l", "s", "e" >> }
PgBoolean(v) ==
    IF v.type = "boolean" THEN v.bool ELSE v.chars = << "t", "r", "u", "e" >>

----------------------------------------------------------------------------
(* The tables *)

\* INSERT INTO pets (user_id, name, hunger, happiness, energy, hygiene, sprite)
\* VALUES ($1, 'Buddy', 50, 50, 50, 50, 0); the other columns take their defaults
NewPet(userId, t) ==
    [ user_id      |-> userId,
      name         |-> <<"B", "u", "d", "d", "y">>,
      hunger       |-> 50,
      happiness    |-> 50,
      energy       |-> 50,
      hygiene      |-> 50,
      world_code   |-> Null,
      world_open   |-> FALSE,
      visits_count |-> 0,
      last_fed     |-> t,
      last_played  |-> t,
      last_cleaned |-> t,
      last_slept   |-> t ]

\* a memory filed under a fixed pet instead of the one acted on
MemoryOfFirstPet(petId, content, t) ==
    [ pet_id |-> 1, memory_type |-> "action", content |-> content, created_at |-> t ]

\* INSERT INTO memories (pet_id, memory_type, content) VALUES ($1, 'action', $3);
\* created_at takes its default, NOW()
Memory(petId, content, t) ==
    [ pet_id |-> petId, memory_type |-> "action", content |-> content,
      created_at |-> t ]

\* SELECT * FROM pets WHERE user_id = $1
SelectByUser(P, userId) == { id \in DOMAIN P : P[id].user_id = userId }

\* the rows of one pet in memories
MemoriesOf(M, petId) == SelectSeq(M, LAMBDA m : m.pet_id = petId)

NoBody == [ hunger |-> 0, happiness |-> 0, energy |-> 0, hygiene |-> 0 ]

\* what a handler answers: op names the route, status is the HTTP status
Response(op, id, status) ==
    [ op |-> op, id |-> id, status |-> status,
      action |-> "", code |-> Null, body |-> NoBody, fallback |-> FALSE ]

\* what a handler leaves behind: the tables and the response
Outcome(P, M, r) == [ pets |-> P, memories |-> M, res |-> r ]

----------------------------------------------------------------------------
(* GET /api/pet/:userId  (get or create) *)

GetPetHandler(P, M, seq, t, userId) ==
    LET rows == SelectByUser(P, userId)
    IN  IF rows = {}
        THEN LET id == seq + 1
             IN  [ pets     |-> (id :> NewPet(userId, t)) @@ P,
                   memories |-> Append(M, Memory(id, << "Born into this world!" >>, t)),
                   seq      |-> id,
                   res      |-> Response("get", id, 200) ]
        ELSE [ pets     |-> P,
               memories |-> M,
               seq      |-> seq,
               res      |-> Response("get", CHOOSE id \in rows : TRUE, 200) ]

\* callers whose first accesses may overlap
Callers == {"c1", "c2"}

\* a request of the get-or-create route: pc, req.params.userId, the id of the
\* row it found or inserted, and the status once it has answered
IdleGet == [ pc |-> "idle", userId |-> "", id |-> 0, status |-> 0 ]

\* a column without the UNIQUE constraint
NoUserUnique(P, userId) == FALSE

\* pets.user_id TEXT NOT NULL UNIQUE: would a new row of this user break it
UserUniqueViolation(P, userId) == \E id \in DOMAIN P : P[id].user_id = userId

\* INSERT INTO pets (user_id, ...) VALUES ($1, ...) RETURNING *.  The SERIAL
\* default takes the next value of the sequence before the row is checked, so
\* a rejected row leaves a gap.
InsertPetStatement(P, seq, t, userId) ==
    LET id == seq + 1
    IN  IF UserUniqueViolation(P, userId)
        THEN [ pets |-> P, seq |-> id, id |-> 0, status |-> 500 ]
        ELSE [ pets |-> (id :> NewPet(userId, t)) @@ P, seq |-> id, id |-> id,
               status |-> 0 ]

----------------------------------------------------------------------------
(* POST /api/pet/:id/action *)

\* the table of stat changes
updates ==
    [ feed  |-> [ hunger |-> 30, last_fed |-> TRUE ],
      play  |-> [ happiness |-> 20, energy |-> -10, last_played |-> TRUE ],
      clean |-> [ hygiene |-> 40, last_cleaned |-> TRUE ],
      sleep |-> [ energy |-> 30, last_slept |-> TRUE ] ]

\* names every JavaScript object inherits from Object.prototype
ObjectPrototypeNames == { "constructor", "toString" }

\* updates[action]: an own property, an inherited one (an object or function
\* with none of the properties the handler reads), or undefined
Undefined == [ undefined |-> TRUE ]
Inherited == [ inherited |-> TRUE ]
Lookup(action) ==
    IF action \in DOMAIN updates THEN updates[action]
    ELSE IF action \in ObjectPrototypeNames THEN Inherited
    ELSE Undefined

Has(update, key) == key \in DOMAIN update
Truthy(update, key) == key \in DOMAIN update /\ update[key] = TRUE

TimestampNames == { "last_fed", "last_played", "last_cleaned", "last_slept" }

\* the columns named in the SET clause, in the order they are pushed
SetParts(update) ==
       (IF Has(update, "hunger") THEN << "hunger" >> ELSE << >>)
    \o (IF Has(update, "happiness") THEN << "happiness" >> ELSE << >>)
    \o (IF Has(update, "energy") THEN << "energy" >> ELSE << >>)
    \o (IF Has(update, "hygiene") THEN << "hygiene" >> ELSE << >>)
    \o (IF Truthy(update, "last_fed") THEN << "last_fed" >> ELSE << >>)
    \o (IF Truthy(update, "last_played") THEN << "last_played" >> ELSE << >>)
    \o (IF Truthy(update, "last_cleaned") THEN << "last_cleaned" >> ELSE << >>)
    \o (IF Truthy(update, "last_slept") THEN << "last_slept" >> ELSE << >>)

Range(s) == { s[i] : i \in DOMAIN s }

\* the sum written back as it is
UnclampedAdd(old, delta) == old + delta

\* stat = GREATEST(0, LEAST(100, stat + $n))
ClampedAdd(old, delta) == GREATEST(0, LEAST(100, old + delta))

\* an UPDATE that stamps all four timestamp columns
ApplySetAllStamps(row, update, t) ==
    [ c \in DOMAIN row |->
        IF c \in Range(SetParts(update)) /\ c \in StatNames
        THEN ClampedAdd(row[c], update[c])
        ELSE IF c \in TimestampNames THEN t
        ELSE row[c] ]

\* UPDATE pets SET <parts> WHERE id = $n, on the row it matches
ApplySet(row, update, t) ==
    LET parts == Range(SetParts(update))
    IN  [ c \in DOMAIN row |->
            IF c \in parts /\ c \in StatNames THEN ClampedAdd(row[c], update[c])
            ELSE IF c \in parts /\ c \in TimestampNames THEN t
            ELSE row[c] ]

\* the memory text: a chain of ?: on the action name
MemoryContent(action) ==
    << "Owner",
       IF action = "feed" THEN "fed"
       ELSE IF action = "play" THEN "played with"
       ELSE IF action = "clean" THEN "cleaned"
       ELSE "put to sleep",
       "me!" >>

ActionHandler(P, M, t, id, action) ==
    LET update == Lookup(action)
        r(status) == [ Response("action", id, status) EXCEPT !.action = action ]
    IN  IF update = Undefined
        THEN Outcome(P, M, r(400))
        ELSE IF SetParts(update) = << >>
        THEN Outcome(P, M, r(500))   \* "UPDATE pets SET  WHERE ...": syntax error
        ELSE IF id \notin DOMAIN P
        THEN Outcome(P, M, r(500))   \* no row updated; the memory INSERT breaks
                                     \* memories.pet_id REFERENCES pets(id)
        ELSE Outcome([ P EXCEPT ![id] = ApplySet(P[id], update, t) ],
                     Append(M, Memory(id, MemoryContent(action), t)),
                     r(200))

----------------------------------------------------------------------------
(* POST /api/pet/:id/rename *)

\* a test for the empty name alone
RenameRejectsEmptyOnly(name) == ~ToBoolean(name)

\* if (!name || name.length > 20)
RenameRejected(name) == ~ToBoolean(name) \/ LengthExceeds(name, 20)

\* UPDATE pets SET name = $1 WHERE id = $2 RETURNING *, name being VARCHAR(20)
RenameHandler(P, M, id, name) ==
    IF RenameRejected(name)
    THEN Outcome(P, M, Response("rename", id, 400))
    ELSE IF id \notin DOMAIN P
    THEN Outcome(P, M, Response("rename", id, 200))  \* res.json(undefined)
    ELSE IF ~VarcharFits(PgText(name), 20)
    THEN Outcome(P, M, Response("rename", id, 500))  \* value too long
    ELSE Outcome([ P EXCEPT ![id].name = PgText(name) ], M, Response("rename", id, 200))

----------------------------------------------------------------------------
(* POST /api/pet/:id/sync *)

\* an UPDATE that also puts the default name back
SyncSetAndName(row, v) ==
    [ c \in DOMAIN row |->
        IF c \in StatNames THEN v[c] \div 2
        ELSE IF c = "name" THEN << "B", "u", "d", "d", "y" >>
        ELSE row[c] ]

\* the first two parameters bound in the wrong order
SyncSetSwapped(row, v) ==
    [ c \in DOMAIN row |->
        IF c = "hunger" THEN v.happiness \div 2
        ELSE IF c = "happiness" THEN v.hunger \div 2
        ELSE IF c \in StatNames THEN v[c] \div 2
        ELSE row[c] ]

\* SET hunger = $1, happiness = $2, energy = $3, hygiene = $4
SyncSet(row, v) ==
    [ c \in DOMAIN row |-> IF c \in StatNames THEN v[c] \div 2 ELSE row[c] ]

SyncHandler(P, M, id, body) ==
    LET v == [ c \in StatNames |-> clamp(body[c]) ]
        r(status) == [ Response("sync", id, status) EXCEPT !.body = body ]
    IN  IF \E c \in StatNames : ~IsInteger(v[c])
        THEN Outcome(P, M, r(500))   \* invalid input syntax for type integer
        ELSE IF id \notin DOMAIN P
        THEN Outcome(P, M, r(404))
        ELSE Outcome([ P EXCEPT ![id] = SyncSet(P[id], v) ], M, r(200))

----------------------------------------------------------------------------
(* POST /api/pet/:id/talk *)

\* llmOk: whether axios.post to Ollama resolved within the timeout
TalkHandler(P, M, t, id, llmOk) ==
    IF id \notin DOMAIN P
    THEN Outcome(P, M, Response("talk", id, 404))
    ELSE IF llmOk
    THEN Outcome(P, Append(M, Memory(id, << "Owner said", "I replied" >>, t)),
                 Response("talk", id, 200))
    ELSE Outcome(P, M, [ Response("talk", id, 200) EXCEPT !.fallback = TRUE ])

\* the rows of a set in the order of created_at; no two rows of the table
\* carry the same instant
RECURSIVE SortByCreatedAt(_, _)
SortByCreatedAt(rows, descending) ==
    IF rows = {} THEN << >>
    ELSE LET first == CHOOSE r \in rows : \A s \in rows :
                          IF descending THEN s.created_at <= r.created_at
                          ELSE s.created_at >= r.created_at
         IN  << first >> \o SortByCreatedAt(rows \ { first }, descending)

\* the oldest row first
OrderByCreatedAtAsc(rows) == SortByCreatedAt(rows, FALSE)

\* ORDER BY created_at DESC
OrderByCreatedAtDesc(rows) == SortByCreatedAt(rows, TRUE)

\* LIMIT n
Limit(rows, n) == SubSeq(rows, 1, IF Len(rows) < n THEN Len(rows) ELSE n)

\* FROM memories WHERE pet_id = $1
SelectMemories(M, petId) == { M[i] : i \in { j \in 1..Len(M) : M[j].pet_id = petId } }

\* GET /api/pet/:id/memories: SELECT memory_type, content, created_at ...
\* ORDER BY created_at DESC LIMIT 50
MemoriesHandler(M, id) ==
    LET rows == Limit(OrderByCreatedAtDesc(SelectMemories(M, id)), MemoriesLimit)
    IN  [ k \in 1..Len(rows) |->
            [ memory_type |-> rows[k].memory_type, content |-> rows[k].content,
              created_at |-> rows[k].created_at ] ]

\* the memories of the talk prompt: SELECT content ... ORDER BY created_at DESC
\* LIMIT 5, then rows.map(r => r.content)
PromptMemories(M, id) ==
    LET rows == Limit(OrderByCreatedAtDesc(SelectMemories(M, id)), PromptLimit)
    IN  [ k \in 1..Len(rows) |-> rows[k].content ]

\* a request of the talk route: pc, req.params.id, the sum of the four stats
\* of the row read at the start (pet), how the call to Ollama ended, and the
\* answer: status, the fallback mark and which reply it carries
IdleTalk ==
    [ pc |-> "idle", id |-> 0, sum |-> 0, llm |-> "none", status |-> 0,
      fallback |-> FALSE, reply |-> "" ]

\* avgStats < 40 ? low_stats : avgStats > 70 ? high_stats : default
FallbackResponse(sum) ==
    IF sum < 4 * 40 THEN "low_stats"
    ELSE IF sum > 4 * 70 THEN "high_stats"
    ELSE "default"

\* a handler that lets the failure of the call reach the outer catch block
TalkAnswerSurfacing(req, llmOk) ==
    IF llmOk
    THEN [ IdleTalk EXCEPT !.pc = "done", !.id = req.id, !.llm = "ok",
                           !.status = 200, !.reply = "ai" ]
    ELSE [ IdleTalk EXCEPT !.pc = "done", !.id = req.id, !.llm = "failed",
                           !.status = 500 ]

\* the answer after axios.post resolved (llmOk) or threw: res.json({ response })
\* or res.json({ response, fallback: true })
TalkAnswer(req, llmOk) ==
    IF llmOk
    THEN [ IdleTalk EXCEPT !.pc = "done", !.id = req.id, !.llm = "ok",
                           !.status = 200, !.reply = "ai" ]
    ELSE [ IdleTalk EXCEPT !.pc = "done", !.id = req.id, !.llm = "failed",
                           !.status = 200, !.fallback = TRUE,
                           !.reply = FallbackResponse(req.sum) ]

----------------------------------------------------------------------------
(* POST /api/pet/:id/world and GET /api/world/:code *)

chars ==
    << "A", "B", "C", "D", "E", "F", "G", "H", "J", "K", "L", "M", "N", "P", "Q", "R",
       "S", "T", "U", "V", "W", "X", "Y", "Z", "2", "3", "4", "5", "6", "7", "8", "9" >>

\* the inner for loop after i passes; draw[i + 1] is the i-th value of
\* Math.floor(Math.random() * chars.length)
RECURSIVE CodeAfter(_, _)
CodeAfter(draw, i) ==
    IF i = 0 THEN << >>
    ELSE LET code == CodeAfter(draw, i - 1)
         IN  (IF i - 1 = 4 THEN Append(code, "-") ELSE code)
                \o << chars[draw[i] + 1] >>

\* six characters with no hyphen between them
GenCodeUnbroken(draw) == [ i \in 1..6 |-> chars[draw[i] + 1] ]

GenCode(draw) == CodeAfter(draw, 6)

\* a request of the world route: where its handler stands (pc), req.body.open,
\* the locals code and attempts, and the status once it has answered
IdleWorld ==
    [ pc |-> "idle", open |-> JsBoolean(FALSE), code |-> Null, attempts |-> 0,
      status |-> 0 ]

\* a request of the visit route: pc, req.params.code, result.rows[0].id, status
IdleVisit == [ pc |-> "idle", code |-> Null, id |-> 0, status |-> 0 ]

\* a uniqueness query that matches no row
SelectByCodeNoMatch(P, code) == { id \in DOMAIN P : FALSE }

\* SELECT 1 FROM pets WHERE world_code = $1
SelectByCode(P, code) == { id \in DOMAIN P : P[id].world_code = code }

\* a column without the UNIQUE constraint
NoUniqueConstraint(P, id, code) == FALSE

\* pets.world_code TEXT UNIQUE: would giving row id this code break it
UniqueViolation(P, id, code) ==
    code # Null /\ \E other \in DOMAIN P \ { id } : P[other].world_code = code

\* a loop without the limit on attempts
WorldIterateForever(req, draw, P) ==
    LET code == GenCode(draw)
    IN  IF SelectByCode(P, code) = {}
        THEN [ req EXCEPT !.pc = "update", !.code = code, !.attempts = @ + 1 ]
        ELSE [ req EXCEPT !.pc = "generate", !.attempts = @ + 1 ]

\* one pass of the do-while body, up to its break or its next pass
WorldIterate(req, draw, P) ==
    LET code == GenCode(draw)
        attempts == req.attempts + 1
    IN  IF attempts > MaxAttempts
        THEN [ IdleWorld EXCEPT !.pc = "done", !.status = 500 ]
        ELSE IF SelectByCode(P, code) = {}
        THEN [ req EXCEPT !.pc = "update", !.code = code, !.attempts = attempts ]
        ELSE [ req EXCEPT !.pc = "generate", !.attempts = attempts ]

\* UPDATE pets SET world_open = $1, world_code = $2 WHERE id = $3, and the answer
WorldUpdateStatement(P, id, open, code) ==
    IF ~PgBooleanOk(open)
    THEN [ pets |-> P, status |-> 500 ]
    ELSE IF id \notin DOMAIN P
    THEN [ pets |-> P, status |-> 200 ]      \* res.json(undefined)
    ELSE IF UniqueViolation(P, id, code)
    THEN [ pets |-> P, status |-> 500 ]
    ELSE [ pets   |-> [ P EXCEPT ![id].world_open = PgBoolean(open),
                                 ![id].world_code = code ],
           status |-> 200 ]

\* the lookup without its world_open condition
VisitLookupAnyCode(P, code) == { id \in DOMAIN P : P[id].world_code = code }

\* SELECT ... FROM pets WHERE world_code = $1 AND world_open = TRUE
VisitLookup(P, code) ==
    { id \in DOMAIN P : P[id].world_code = code /\ P[id].world_open = TRUE }

\* the UPDATE without its WHERE clause
VisitUpdateEveryPet(P, id) ==
    [ p \in DOMAIN P |-> [ P[p] EXCEPT !.visits_count = @ + 1 ] ]

\* UPDATE pets SET visits_count = visits_count + 1 WHERE id = $1
VisitUpdateStatement(P, id) ==
    IF id \in DOMAIN P
    THEN [ P EXCEPT ![id].visits_count = P[id].visits_count + 1 ]
    ELSE P

----------------------------------------------------------------------------
(* The browser client, class PixelBuddy *)

NoClientPet ==
    [ id |-> 0, hunger |-> 0, happiness |-> 0, energy |-> 0, hygiene |-> 0 ]

\* this.pet = await res.json(): the row as the client holds it
ClientPet(id, row) ==
    [ id        |-> id,
      hunger    |-> 2 * row.hunger,
      happiness |-> 2 * row.happiness,
      energy    |-> 2 * row.energy,
      hygiene   |-> 2 * row.hygiene ]

\* a callback that subtracts without the floor
DecayUnfloored(pet) ==
    [ pet EXCEPT !.hunger    = pet.hunger - 2,
                 !.happiness = pet.happiness - 1,
                 !.energy    = pet.energy - 1,
                 !.hygiene   = pet.hygiene - 1 ]

\* the decay timer's callback: hunger - 1, the others - 0.5, floored at 0
Decay(pet) ==
    [ pet EXCEPT !.hunger    = MathMax(0, pet.hunger - 2),
                 !.happiness = MathMax(0, pet.happiness - 1),
                 !.energy    = MathMax(0, pet.energy - 1),
                 !.hygiene   = MathMax(0, pet.hygiene - 1) ]

\* the body syncStats sends: every stat through Math.round
SyncBody(pet) ==
    [ c \in StatNames |-> 2 * MathRound(pet[c]) ]

----------------------------------------------------------------------------
(* Accounts: utils/jwt.js, utils/audit.js, middleware/auth.js and the       *)
(* routes under /api/auth.  A string of a request is the sequence of its    *)
(* characters; the empty sequence also stands for a field that is missing,  *)
(* which the handlers treat alike (!field).                                 *)

JWT_SECRET == "JWT_SECRET"

\* SQL NULL in a timestamp column
NoTime == -1

\* jwt.sign(payload, secret, { expiresIn, issuer, subject }): the signed
\* claims, the key that signed them, and whether the lifetime has passed when
\* the token is presented
Sign(payload, secret) ==
    [ payload |-> payload, secret |-> secret, iss |-> "pixel-buddy", expired |-> FALSE ]

\* user.role of a row that was selected without the column is undefined
RoleOf(user) == IF "role" \in DOMAIN user THEN user.role ELSE "undefined"

generateAccessToken(user) ==
    Sign([ id |-> user.id, email |-> user.email, username |-> user.username,
           role |-> RoleOf(user) ], JWT_SECRET)

generateRefreshToken(user) ==
    Sign([ id |-> user.id, type |-> "refresh" ], JWT_SECRET)

generatePasswordResetToken(user) ==
    Sign([ id |-> user.id, email |-> user.email, type |-> "password_reset" ], JWT_SECRET)

\* a verification that does not look at the lifetime
verifyTokenUnexpiring(token) ==
    IF token.secret # JWT_SECRET \/ token.iss # "pixel-buddy"
    THEN [ threw |-> "Invalid token" ]
    ELSE [ decoded |-> token.payload ]

\* jwt.verify: the signature, then the lifetime, then the issuer; it returns
\* the claims or throws
verifyToken(token) ==
    IF token.secret # JWT_SECRET THEN [ threw |-> "Invalid token" ]
    ELSE IF token.expired THEN [ threw |-> "Token expired" ]
    ELSE IF token.iss # "pixel-buddy" THEN [ threw |-> "Invalid token" ]
    ELSE [ decoded |-> token.payload ]

Threw(v) == "threw" \in DOMAIN v

\* a comparison that takes every token for one of the type asked for
TypeIsAny(decoded, type) == TRUE

\* decoded.type === type; the type of an access token is undefined
TypeIs(decoded, type) == "type" \in DOMAIN decoded /\ decoded.type = type

\* the number of decimal digits of a positive integer
RECURSIVE DecimalDigits(_)
DecimalDigits(n) == IF n < 10 THEN 1 ELSE 1 + DecimalDigits(n \div 10)

\* the length of base64url without padding of n bytes
Base64UrlLength(n) == (4 * n + 2) \div 3

\* the length of the compact serialization jwt.sign returns for a
\* password-reset token: base64url of the header {"alg":"HS256","typ":"JWT"}
\* (27 bytes), of the claims {"id":N,"email":"E","type":"password_reset",
\* "iat":T,"exp":T,"iss":"pixel-buddy","sub":"N"} (T has 10 digits) and of the
\* HMAC-SHA256 signature (32 bytes), joined by two dots
PasswordResetTokenLength(token) ==
    LET claims == 105 + 2 * DecimalDigits(token.payload.id) + Len(token.payload.email)
    IN  Base64UrlLength(27) + 1 + Base64UrlLength(claims) + 1 + Base64UrlLength(32)

(* utils/audit.js *)

\* formatWhodunnit for a user: User:<id>:<email>:<controller>#<action>
formatWhodunnit(user, controller, action) ==
    << "User", user.id, user.email, controller, action >>

\* a logger that lets the failure of the INSERT out
logAuditRethrows(A, user, itemId, eventType, action, ok) ==
    LET row == [ user_id    |-> user.id,
                 whodunnit  |-> formatWhodunnit(user, "auth", action),
                 item_type  |-> "User",
                 item_id    |-> itemId,
                 event_type |-> eventType,
                 action     |-> action ]
    IN  IF ok THEN [ audit |-> Append(A, row), threw |-> FALSE, null |-> FALSE ]
        ELSE [ audit |-> A, threw |-> TRUE, null |-> FALSE ]

\* logAudit: INSERT INTO audit_log ... RETURNING *; ok says whether the
\* INSERT succeeds.  A failure is caught and answered with null.
logAudit(A, user, itemId, eventType, action, ok) ==
    LET row == [ user_id    |-> user.id,
                 whodunnit  |-> formatWhodunnit(user, "auth", action),
                 item_type  |-> "User",
                 item_id    |-> itemId,
                 event_type |-> eventType,
                 action     |-> action ]
    IN  IF ok THEN [ audit |-> Append(A, row), threw |-> FALSE, null |-> FALSE ]
        ELSE [ audit |-> A, threw |-> FALSE, null |-> TRUE ]

(* middleware/auth.js *)

NoHeader == [ present |-> FALSE, scheme |-> "", token |-> Sign([ id |-> 0 ], "") ]
Header(scheme, token) == [ present |-> TRUE, scheme |-> scheme, token |-> token ]

\* SELECT ... FROM users WHERE id = $1
SelectUserById(U, id) == { i \in DOMAIN U : i = id }

\* authenticate(req, res, next): the status answered (0 when none is) and
\* whether next() is called, with req.user
Authenticate(U, header) ==
    LET deny(status, message) ==
            [ status |-> status, message |-> message, next |-> FALSE, user |-> 0 ]
    IN  IF ~header.present \/ header.scheme # "Bearer "
        THEN deny(401, "No token provided")
        ELSE LET v == verifyToken(header.token)
             IN  IF Threw(v) THEN deny(401, v.threw)
                 ELSE IF SelectUserById(U, v.decoded.id) = { }
                 THEN deny(401, "User not found")
                 ELSE IF ~U[v.decoded.id].is_active
                 THEN deny(403, "Account is inactive")
                 ELSE [ status |-> 0, message |-> "", next |-> TRUE,
                        user |-> v.decoded.id ]

(* routes under /api/auth *)

WordChars ==
    { "a", "b", "c", "d", "e", "f", "g", "h", "i", "j", "k", "l", "m", "n", "o",
      "p", "q", "r", "s", "t", "u", "v", "w", "x", "y", "z", "0", "1", "2", "3",
      "4", "5", "6", "7", "8", "9", "_" }

\* /^[^\s@]+@[^\s@]+\.[^\s@]+$/.test(email)
EmailRegexTest(s) ==
    /\ \A i \in DOMAIN s : s[i] # " "
    /\ \E a \in DOMAIN s :
          /\ s[a] = "@"
          /\ \A i \in DOMAIN s : s[i] = "@" => i = a
          /\ a > 1
          /\ \E d \in DOMAIN s : s[d] = "." /\ d > a + 1 /\ d < Len(s)

\* /^[a-zA-Z0-9_]{3,50}$/.test(username)
UsernameRegexTest(s) ==
    /\ Len(s) >= 3
    /\ Len(s) <= 50
    /\ \A i \in DOMAIN s : s[i] \in WordChars

\* bcrypt.hash and bcrypt.compare
BcryptHash(password) == [ hash_of |-> password ]
BcryptCompare(password, hash) == hash.hash_of = password

AccountResponse(status, message, tokens) ==
    [ status |-> status, message |-> message, tokens |-> tokens ]

AccountOutcome(U, seq, A, I, res) ==
    [ users |-> U, seq |-> seq, audit |-> A, issued |-> I, res |-> res ]

\* INSERT INTO users (username, email, password_hash, display_name,
\* oauth_provider, email_verified) VALUES (...): the row with its defaults
NewUser(id, body) ==
    [ id                   |-> id,
      username             |-> body.username,
      email                |-> body.email,
      password_hash        |-> BcryptHash(body.password),
      display_name         |-> body.username,
      is_active            |-> TRUE,
      role                 |-> "user",
      last_login_at        |-> NoTime,
      password_reset_token |-> { } ]

\* SELECT id FROM users WHERE username = $1 OR email = $2
SelectByNameOrEmail(U, username, email) ==
    { i \in DOMAIN U : U[i].username = username \/ U[i].email = email }

\* SELECT * FROM users WHERE email = $1
SelectByEmail(U, email) == { i \in DOMAIN U : U[i].email = email }

\* POST /register.  The row of notification_preferences it also inserts is
\* keyed by the new id and read by none of these routes.
RegisterHandler(U, seq, A, I, body, auditOk) ==
    IF body.username = << >> \/ body.email = << >> \/ body.password = << >>
    THEN AccountOutcome(U, seq, A, I,
             AccountResponse(400, "Username, email, and password are required", { }))
    ELSE IF ~EmailRegexTest(body.email)
    THEN AccountOutcome(U, seq, A, I, AccountResponse(400, "Invalid email format", { }))
    ELSE IF ~UsernameRegexTest(body.username)
    THEN AccountOutcome(U, seq, A, I, AccountResponse(400, "Username must be 3-50 characters", { }))
    ELSE IF Len(body.password) < 8
    THEN AccountOutcome(U, seq, A, I,
             AccountResponse(400, "Password must be at least 8 characters", { }))
    ELSE IF SelectByNameOrEmail(U, body.username, body.email) # { }
    THEN AccountOutcome(U, seq, A, I,
             AccountResponse(409, "Username or email already exists", { }))
    ELSE IF ~VarcharFits(body.email, 255)
    THEN AccountOutcome(U, seq + 1, A, I, AccountResponse(500, "Failed to register user", { }))
    ELSE LET id == seq + 1
             row == NewUser(id, body)
             \* RETURNING id, username, email, display_name, created_at
             user == [ id |-> id, username |-> row.username, email |-> row.email,
                       display_name |-> row.display_name ]
             U1 == [ i \in DOMAIN U \cup { id } |-> IF i = id THEN row ELSE U[i] ]
             log == logAudit(A, user, id, "create", "register", auditOk)
             tokens == { generateAccessToken(user), generateRefreshToken(user) }
         IN  IF log.threw
             THEN AccountOutcome(U1, id, log.audit, I,
                      AccountResponse(500, "Failed to register user", { }))
             ELSE AccountOutcome(U1, id, log.audit, I \cup tokens,
                      AccountResponse(201, "", tokens))

\* POST /login
LoginHandler(U, seq, A, I, t, body, auditOk) ==
    IF body.email = << >> \/ body.password = << >>
    THEN AccountOutcome(U, seq, A, I,
             AccountResponse(400, "Email and password are required", { }))
    ELSE IF SelectByEmail(U, body.email) = { }
    THEN AccountOutcome(U, seq, A, I, AccountResponse(401, "Invalid email or password", { }))
    ELSE LET id == CHOOSE i \in SelectByEmail(U, body.email) : TRUE
             user == U[id]
         IN  IF ~BcryptCompare(body.password, user.password_hash)
             THEN AccountOutcome(U, seq, A, I,
                      AccountResponse(401, "Invalid email or password", { }))
             ELSE IF ~user.is_active
             THEN AccountOutcome(U, seq, A, I, AccountResponse(403, "Account is inactive", { }))
             ELSE LET \* UPDATE users SET last_login_at = NOW() WHERE id = $1
                      U1 == [ U EXCEPT ![id].last_login_at = t ]
                      log == logAudit(A, user, id, "login", "login", auditOk)
                      tokens == { generateAccessToken(user), generateRefreshToken(user) }
                  IN  IF log.threw
                      THEN AccountOutcome(U1, seq, log.audit, I,
                               AccountResponse(500, "Failed to login", { }))
                      ELSE AccountOutcome(U1, seq, log.audit, I \cup tokens,
                               AccountResponse(200, "", tokens))

\* POST /refresh
RefreshHandler(U, seq, A, I, body) ==
    IF ~body.present
    THEN AccountOutcome(U, seq, A, I, AccountResponse(400, "Refresh token is required", { }))
    ELSE LET v == verifyToken(body.token)
         IN  IF Threw(v)
             THEN AccountOutcome(U, seq, A, I,
                      AccountResponse(401, "Invalid or expired refresh token", { }))
             ELSE IF ~TypeIs(v.decoded, "refresh")
             THEN AccountOutcome(U, seq, A, I,
                      AccountResponse(401, "Not a valid refresh token", { }))
             ELSE IF SelectUserById(U, v.decoded.id) = { } \/ ~U[v.decoded.id].is_active
             THEN AccountOutcome(U, seq, A, I,
                      AccountResponse(401, "User not found or inactive", { }))
             ELSE LET token == generateAccessToken(U[v.decoded.id])
                  IN  AccountOutcome(U, seq, A, I \cup { token },
                          AccountResponse(200, "", { token }))

\* UPDATE users SET password_reset_token = $1 ...: the column is VARCHAR(255)
ResetTokenFits(token) == PasswordResetTokenLength(token) <= 255

\* POST /password-reset/request.  The token is written to the log for the
\* mail that is to carry it.
PasswordResetRequestHandler(U, seq, A, I, email, auditOk) ==
    LET sent == AccountResponse(200,
                    "If the email exists, a password reset link has been sent", { })
    IN  IF email = << >>
        THEN AccountOutcome(U, seq, A, I, AccountResponse(400, "Email is required", { }))
        ELSE IF SelectByEmail(U, email) = { }
        THEN AccountOutcome(U, seq, A, I, sent)
        ELSE LET id == CHOOSE i \in SelectByEmail(U, email) : TRUE
                 user == U[id]
                 resetToken == generatePasswordResetToken(user)
             IN  IF ~ResetTokenFits(resetToken)
                 THEN AccountOutcome(U, seq, A, I,
                          AccountResponse(500, "Failed to process password reset", { }))
                 ELSE LET U1 == [ U EXCEPT ![id].password_reset_token = { resetToken } ]
                          log == logAudit(A, user, id, "update",
                                          "password_reset_request", auditOk)
                      IN  IF log.threw
                          THEN AccountOutcome(U1, seq, log.audit, I \cup { resetToken },
                                   AccountResponse(500, "Failed to process password reset", { }))
                          ELSE AccountOutcome(U1, seq, log.audit, I \cup { resetToken }, sent)

\* POST /logout: authenticate, then the route
LogoutHandler(U, seq, A, I, header, auditOk) ==
    LET auth == Authenticate(U, header)
    IN  IF ~auth.next
        THEN AccountOutcome(U, seq, A, I, AccountResponse(auth.status, auth.message, { }))
        ELSE LET log == logAudit(A, U[auth.user], auth.user, "logout", "logout", auditOk)
             IN  IF log.threw
                 THEN AccountOutcome(U, seq, log.audit, I,
                          AccountResponse(500, "Failed to logout", { }))
                 ELSE AccountOutcome(U, seq, log.audit, I,
                          AccountResponse(200, "Logged out successfully", { }))

----------------------------------------------------------------------------
(* Request inputs explored *)

ValidActions == { "feed", "play", "clean", "sleep" }

\* an unknown name, an absent name (the key "undefined"), an inherited name
ActionInputs == ValidActions \cup { "dance", "undefined", "constructor" }

\* a name, the empty string, no name, a string of 21 characters, and an array
\* holding a string of 21 characters
NameInputs ==
    { JsString(<< "R", "e", "x" >>), JsString(<< >>), JsUndefined,
      JsString([ i \in 1..21 |-> "x" ]), JsArrayOfOne([ i \in 1..21 |-> "x" ]) }

\* sync bodies in half units: (90, 0, 5, 100) in range; (-10, 130, 110, -0.5)
\* out of range; (50.5, 50, 50, 50) in range with a fraction
SyncInputs ==
    { [ hunger |-> 180, happiness |-> 0,   energy |-> 10,  hygiene |-> 200 ],
      [ hunger |-> -20, happiness |-> 260, energy |-> 220, hygiene |-> -1 ],
      [ hunger |-> 101, happiness |-> 100, energy |-> 100, hygiene |-> 100 ] }

\* the buttons the session's user presses
ButtonInputs == { "feed", "play" }

\* sync bodies that leave a pet with low stats (10 each) or high ones (100 each)
MoodInputs ==
    { [ c \in StatNames |-> 2 * 10 ], [ c \in StatNames |-> 2 * 100 ] }

\* the requests that fill a long memory log: one pet is fed again and again
LogWriters == { 1 }

\* one action that is applied and one that is refused
LogActions == { "feed", "dance" }

\* req.body.open: true, false, and the string "false" of a form body
OpenInputs ==
    { JsBoolean(TRUE), JsBoolean(FALSE), JsString(<< "f", "a", "l", "s", "e" >>) }

\* the values Math.random() yields in one pass: the codes ABCD-23 and XYZA-99
RandomDraws == { << 0, 1, 2, 3, 24, 25 >>, << 21, 22, 23, 0, 31, 31 >> }

\* Math.random() yielding the same values in every pass: always ABCD-23
StuckDraws == { << 0, 1, 2, 3, 24, 25 >> }

\* codes a visitor types: the two above and one that is never generated
CodeInputs ==
    { GenCode(draw) : draw \in RandomDraws } \cup { << "N", "O", "P", "E", "-", "0", "0" >> }

----------------------------------------------------------------------------
\* request bodies of POST /register: two that pass the validation (the second
\* with an address of 30 characters), and one each with no password, an
\* address without a dot, a name with a blank and a password of 5 characters
ShortEmail == << "a", "@", "b", ".", "c", "o" >>
LongEmail ==
    << "f", "i", "r", "s", "t", "n", "a", "m", "e", ".", "l", "a", "s", "t", "n",
       "a", "m", "e", "@", "e", "x", "a", "m", "p", "l", "e", ".", "c", "o", "m" >>
Password == << "p", "a", "s", "s", "w", "o", "r", "d" >>
RegisterBody(username, email, password) ==
    [ username |-> username, email |-> email, password |-> password ]
ValidRegisterInputs ==
    { RegisterBody(<< "a", "n", "n" >>, ShortEmail, Password),
      RegisterBody(<< "b", "o", "b", "_", "2" >>, LongEmail, Password) }
RegisterInputs ==
    ValidRegisterInputs \cup
    { RegisterBody(<< "a", "n", "n" >>, ShortEmail, << >>),
      RegisterBody(<< "a", "n", "n" >>, << "a", "@", "b" >>, Password),
      RegisterBody(<< "a", " ", "n" >>, ShortEmail, Password),
      RegisterBody(<< "a", "n", "n" >>, ShortEmail, << "p", "a", "s", "s", "w" >>) }

\* addresses submitted: of the two accounts, of nobody, none
EmailInputs == { ShortEmail, LongEmail, << "n", "o", "@", "b", ".", "c", "o" >>, << >> }

LoginInputs ==
    { [ email |-> e, password |-> pw ] :
        e \in EmailInputs, pw \in { Password, << "g", "u", "e", "s", "s" >>, << >> } }

\* a token presented after its lifetime, and one signed with another key
Expired(token) == [ token EXCEPT !.expired = TRUE ]
Forged(token) == [ token EXCEPT !.secret = "guess" ]

\* the tokens a caller can present: those handed out, as they are, expired
\* or re-signed with a guessed key
TokenInputs(I) == I \cup { Expired(tk) : tk \in I } \cup { Forged(tk) : tk \in I }

\* Authorization headers: none, another scheme, Bearer with a token
HeaderInputs(I) ==
    { NoHeader } \cup { Header("Bearer ", tk) : tk \in TokenInputs(I) }
               \cup { Header("Basic ", tk) : tk \in I }

\* bodies of POST /refresh: without a token, with a token
RefreshInputs(I) == { NoHeader } \cup { Header("", tk) : tk \in TokenInputs(I) }

\* the accounts there are or were
AccountIds == 1..MaxAccounts

(* State *)

\* the server process after start-up: the pool is open, no signal has come
Running == [ pool |-> "open", exited |-> FALSE, signal |-> "none" ]

\* no action request of the session in flight
IdleAction == [ pc |-> "idle", action |-> "", row |-> NoClientPet ]


Init ==
    /\ pets = << >>
    /\ memories = << >>
    /\ pets_id_seq = 0
    /\ now = 0
    /\ worldReq = [ id \in WorldIds |-> IdleWorld ]
    /\ visitReq = [ v \in Visitors |-> IdleVisit ]
    /\ getReq = [ c \in Callers |-> IdleGet ]
    /\ talkReq = IdleTalk
    /\ client = NoClientPet
    /\ ticks = 0
    /\ syncReq = { }
    /\ actionReq = IdleAction
    /\ users = << >>
    /\ users_id_seq = 0
    /\ audit_log = << >>
    /\ issued = { }
    /\ proc = Running

\* a handler's outcome becomes the next state; the memory table is explored
\* up to cap rows.  Every handler that stamps a row with NOW() also
\* inserts a memory, and two such requests never read the same instant.
CommitWithin(cap, out) ==
    /\ Len(out.memories) <= cap
    /\ pets' = out.pets
    /\ memories' = out.memories
    /\ now' = IF out.memories # memories THEN now + 1 ELSE now

Commit(out) == CommitWithin(MaxMem, out)

----------------------------------------------------------------------------
(* Pet care: one step per request.  Spec is the server under the requests  *)
(* of any callers.                                                         *)

GetPetWithin(cap, userId) ==
    LET out == GetPetHandler(pets, memories, pets_id_seq, now, userId)
    IN  /\ CommitWithin(cap, out)
        /\ pets_id_seq' = out.seq
        /\ UNCHANGED << accountVars, sessionReqs, proc, getReq, talkReq, worldReq, visitReq, client, ticks >>

GetPet(userId) == GetPetWithin(MaxMem, userId)

PetActionWithin(cap, id, action) ==
    /\ CommitWithin(cap, ActionHandler(pets, memories, now, id, action))
    /\ UNCHANGED << accountVars, sessionReqs, proc, getReq, talkReq, pets_id_seq, worldReq, visitReq, client, ticks >>

PetAction(id, action) == PetActionWithin(MaxMem, id, action)

Rename(id, name) ==
    /\ Commit(RenameHandler(pets, memories, id, name))
    /\ UNCHANGED << accountVars, sessionReqs, proc, getReq, talkReq, pets_id_seq, worldReq, visitReq, client, ticks >>

Sync(id, body) ==
    /\ Commit(SyncHandler(pets, memories, id, body))
    /\ UNCHANGED << accountVars, sessionReqs, proc, getReq, talkReq, pets_id_seq, worldReq, visitReq, client, ticks >>

Talk(id, llmOk) ==
    /\ Commit(TalkHandler(pets, memories, now, id, llmOk))
    /\ UNCHANGED << accountVars, sessionReqs, proc, getReq, talkReq, pets_id_seq, worldReq, visitReq, client, ticks >>

Next ==
    \/ \E u \in Users : GetPet(u)
    \/ \E id \in PetIds, a \in ActionInputs : PetAction(id, a)
    \/ \E id \in PetIds, n \in NameInputs : Rename(id, n)
    \/ \E id \in PetIds, b \in SyncInputs : Sync(id, b)
    \/ \E id \in PetIds, ok \in BOOLEAN : Talk(id, ok)

Spec == Init /\ [][Next]_vars

----------------------------------------------------------------------------
(* One browser session of ClientUser next to the requests of other callers *)

\* init(): fetchPetData, once, before the timers start
ClientFetch ==
    /\ client = NoClientPet
    /\ LET out == GetPetHandler(pets, memories, pets_id_seq, now, ClientUser)
       IN  /\ Commit(out)
           /\ pets_id_seq' = out.seq
           /\ client' = ClientPet(out.res.id, out.pets[out.res.id])
    /\ UNCHANGED << accountVars, sessionReqs, proc, getReq, talkReq, worldReq, visitReq, ticks >>

\* the 60 s timer
DecayTick ==
    /\ client # NoClientPet
    /\ ticks < MaxTicks
    /\ ticks' = ticks + 1
    /\ client' = Decay(client)
    /\ UNCHANGED << accountVars, sessionReqs, proc, getReq, talkReq, pets, memories, pets_id_seq, now, worldReq, visitReq >>

\* the 5 s timer: syncStats
ClientSync ==
    /\ client # NoClientPet
    /\ Commit(SyncHandler(pets, memories, client.id, SyncBody(client)))
    /\ UNCHANGED << accountVars, sessionReqs, proc, getReq, talkReq, pets_id_seq, worldReq, visitReq, client, ticks >>

\* performAction: the request, then this.pet = the row returned
ClientAction(action) ==
    /\ client # NoClientPet
    /\ LET out == ActionHandler(pets, memories, now, client.id, action)
       IN  /\ Commit(out)
           /\ client' = ClientPet(client.id, out.pets[client.id])
    /\ UNCHANGED << accountVars, sessionReqs, proc, getReq, talkReq, pets_id_seq, worldReq, visitReq, ticks >>

NextSession ==
    \/ ClientFetch
    \/ DecayTick
    \/ ClientSync
    \/ \E a \in ValidActions : ClientAction(a)
    \/ \E u \in Users : GetPet(u)
    \/ \E id \in PetIds, a \in ActionInputs : PetAction(id, a)
    \/ \E id \in PetIds, b \in SyncInputs : Sync(id, b)

SpecSession == Init /\ [][NextSession]_vars

----------------------------------------------------------------------------
(* A memory log longer than the limits of the queries that read it *)

NextLog ==
    \/ \E u \in Users : GetPetWithin(MaxLog, u)
    \/ \E id \in LogWriters, a \in LogActions : PetActionWithin(MaxLog, id, a)

SpecLog == Init /\ [][NextLog]_vars

----------------------------------------------------------------------------
(* First access, one step per stretch of the get-or-create handler between  *)
(* two awaits, so that the requests of two callers for one user overlap.    *)

\* the SELECT, and the answer when it finds the pet
GetSelect(c, userId) ==
    /\ getReq[c].pc \in { "idle", "done" }
    /\ LET rows == SelectByUser(pets, userId)
       IN  getReq' = [ getReq EXCEPT ![c] =
               IF rows = {}
               THEN [ pc |-> "insert", userId |-> userId, id |-> 0, status |-> 0 ]
               ELSE [ pc |-> "done", userId |-> userId,
                      id |-> CHOOSE id \in rows : TRUE, status |-> 200 ] ]
    /\ UNCHANGED << accountVars, sessionReqs, proc, talkReq, pets, memories, pets_id_seq, now, worldReq, visitReq,
                    client, ticks >>

\* the INSERT of the pet; a rejected row ends in the catch block
GetInsert(c) ==
    /\ getReq[c].pc = "insert"
    /\ LET out == InsertPetStatement(pets, pets_id_seq, now, getReq[c].userId)
       IN  /\ pets' = out.pets
           /\ pets_id_seq' = out.seq
           /\ getReq' = [ getReq EXCEPT ![c] =
                  IF out.status = 500
                  THEN [ @ EXCEPT !.pc = "done", !.status = 500 ]
                  ELSE [ @ EXCEPT !.pc = "memory", !.id = out.id ] ]
    /\ UNCHANGED << accountVars, sessionReqs, proc, talkReq, memories, now, worldReq, visitReq, client, ticks >>

\* the INSERT of the birth memory, and the answer
GetMemory(c) ==
    /\ getReq[c].pc = "memory"
    /\ Commit(Outcome(pets,
                      Append(memories,
                             Memory(getReq[c].id, << "Born into this world!" >>, now)),
                      Response("get", getReq[c].id, 200)))
    /\ getReq' = [ getReq EXCEPT ![c].pc = "done", ![c].status = 200 ]
    /\ UNCHANGED << accountVars, sessionReqs, proc, talkReq, pets_id_seq, worldReq, visitReq, client, ticks >>

NextAccess ==
    \/ \E c \in Callers, u \in Users : GetSelect(c, u)
    \/ \E c \in Callers : GetInsert(c)
    \/ \E c \in Callers : GetMemory(c)
    \/ \E id \in PetIds, a \in LogActions : PetAction(id, a)
    \/ \E id \in PetIds, n \in NameInputs : Rename(id, n)
    \/ \E id \in PetIds, ok \in BOOLEAN : Talk(id, ok)

SpecAccess == Init /\ [][NextAccess]_vars

----------------------------------------------------------------------------
(* Talk, one step up to the call to Ollama and one after it, next to the    *)
(* requests that change the pet while the call is in flight.                *)

\* the SELECT of the pet (404 when there is none), the SELECT of the recent
\* memories and the prompt
TalkSelect(id) ==
    /\ talkReq.pc \in { "idle", "done" }
    /\ talkReq' =
          IF id \notin DOMAIN pets
          THEN [ IdleTalk EXCEPT !.pc = "done", !.id = id, !.status = 404 ]
          ELSE [ IdleTalk EXCEPT !.pc = "llm", !.id = id,
                                 !.sum = pets[id].hunger + pets[id].happiness
                                         + pets[id].energy + pets[id].hygiene ]
    /\ UNCHANGED << accountVars, sessionReqs, proc, getReq, pets, memories, pets_id_seq, now, worldReq, visitReq,
                    client, ticks >>

\* the call resolved: the reply is saved as a memory; or it threw (refused,
\* timed out after 10 s): the canned reply
TalkReply(llmOk) ==
    /\ talkReq.pc = "llm"
    /\ Commit(Outcome(pets,
                      IF llmOk
                      THEN Append(memories,
                                  Memory(talkReq.id, << "Owner said", "I replied" >>, now))
                      ELSE memories,
                      Response("talk", talkReq.id, 200)))
    /\ talkReq' = TalkAnswer(talkReq, llmOk)
    /\ UNCHANGED << accountVars, sessionReqs, proc, getReq, pets_id_seq, worldReq, visitReq, client, ticks >>

NextTalk ==
    \/ \E u \in Users : GetPet(u)
    \/ \E id \in PetIds, a \in ActionInputs : PetAction(id, a)
    \/ \E id \in PetIds, b \in MoodInputs : Sync(id, b)
    \/ \E id \in PetIds : TalkSelect(id)
    \/ \E ok \in BOOLEAN : TalkReply(ok)

SpecTalk == Init /\ [][NextTalk]_vars

----------------------------------------------------------------------------
(* Multiplayer: one step per stretch of a handler between two awaits.  Each  *)
(* pet has one owner, who sends the next world request after the answer to   *)
(* the previous one; requests of different pets and of visitors interleave.  *)

\* open is truthy: the first pass of the loop runs with the request
WorldOpen(id, open, draw) ==
    /\ worldReq[id].pc \in { "idle", "done" }
    /\ ToBoolean(open)
    /\ worldReq' = [ worldReq EXCEPT ![id] =
                       WorldIterate([ IdleWorld EXCEPT !.open = open ], draw, pets) ]
    /\ UNCHANGED << accountVars, sessionReqs, proc, getReq, talkReq, pets, memories, pets_id_seq, now, visitReq, client, ticks >>

\* a further pass after a collision
WorldPass(id, draw) ==
    /\ worldReq[id].pc = "generate"
    /\ worldReq' = [ worldReq EXCEPT ![id] = WorldIterate(worldReq[id], draw, pets) ]
    /\ UNCHANGED << accountVars, sessionReqs, proc, getReq, talkReq, pets, memories, pets_id_seq, now, visitReq, client, ticks >>

\* the passes explored while requests of several pets race
WorldRetry(id, draw) ==
    /\ worldReq[id].attempts < MaxRetry
    /\ WorldPass(id, draw)

\* the UPDATE after the loop, and the answer
WorldUpdate(id) ==
    /\ worldReq[id].pc = "update"
    /\ LET out == WorldUpdateStatement(pets, id, worldReq[id].open, worldReq[id].code)
       IN  /\ pets' = out.pets
           /\ worldReq' = [ worldReq EXCEPT ![id] =
                              [ IdleWorld EXCEPT !.pc = "done", !.status = out.status ] ]
    /\ UNCHANGED << accountVars, sessionReqs, proc, getReq, talkReq, memories, pets_id_seq, now, visitReq, client, ticks >>

\* open is falsy: code stays null and the UPDATE is the first query
WorldClose(id, open) ==
    /\ worldReq[id].pc \in { "idle", "done" }
    /\ ~ToBoolean(open)
    /\ LET out == WorldUpdateStatement(pets, id, open, Null)
       IN  /\ pets' = out.pets
           /\ worldReq' = [ worldReq EXCEPT ![id] =
                              [ IdleWorld EXCEPT !.pc = "done", !.status = out.status ] ]
    /\ UNCHANGED << accountVars, sessionReqs, proc, getReq, talkReq, memories, pets_id_seq, now, visitReq, client, ticks >>

\* the SELECT, and the 404 when it finds nothing
VisitRequest(v, code) ==
    /\ visitReq[v].pc \in { "idle", "done" }
    /\ LET rows == VisitLookup(pets, code)
       IN  visitReq' = [ visitReq EXCEPT ![v] =
               IF rows = {}
               THEN [ pc |-> "done", code |-> code, id |-> 0, status |-> 404 ]
               ELSE [ pc |-> "update", code |-> code,
                      id |-> CHOOSE id \in rows : TRUE, status |-> 0 ] ]
    /\ UNCHANGED << accountVars, sessionReqs, proc, getReq, talkReq, pets, memories, pets_id_seq, now, worldReq, client, ticks >>

\* the counter UPDATE, and the answer; counters are explored below cap
VisitUpdateWithin(cap, v) ==
    /\ visitReq[v].pc = "update"
    /\ \A id \in DOMAIN pets : pets[id].visits_count < cap
    /\ pets' = VisitUpdateStatement(pets, visitReq[v].id)
    /\ visitReq' = [ visitReq EXCEPT ![v].pc = "done", ![v].status = 200 ]
    /\ UNCHANGED << accountVars, sessionReqs, proc, getReq, talkReq, memories, pets_id_seq, now, worldReq, client, ticks >>

VisitUpdate(v) == VisitUpdateWithin(MaxVisits, v)

NextWorld ==
    \/ \E u \in Users : GetPet(u)
    \/ \E id \in WorldIds, open \in OpenInputs, draw \in RandomDraws : WorldOpen(id, open, draw)
    \/ \E id \in WorldIds, draw \in RandomDraws : WorldRetry(id, draw)
    \/ \E id \in WorldIds : WorldUpdate(id)
    \/ \E id \in WorldIds, open \in OpenInputs : WorldClose(id, open)
    \/ \E v \in WorldVisitors, code \in CodeInputs : VisitRequest(v, code)
    \/ \E v \in WorldVisitors : VisitUpdate(v)

SpecWorld == Init /\ [][NextWorld]_vars

----------------------------------------------------------------------------
(* Visits of several visitors at once, next to the owners' world requests *)

NextVisit ==
    \/ \E u \in Users : GetPet(u)
    \/ \E id \in WorldIds, draw \in StuckDraws : WorldOpen(id, JsBoolean(TRUE), draw)
    \/ \E id \in WorldIds, draw \in StuckDraws : WorldRetry(id, draw)
    \/ \E id \in WorldIds : WorldUpdate(id)
    \/ \E id \in WorldIds : WorldClose(id, JsBoolean(FALSE))
    \/ \E v \in Visitors, draw \in StuckDraws : VisitRequest(v, GenCode(draw))
    \/ \E v \in Visitors : VisitUpdateWithin(MaxCount, v)

SpecVisit == Init /\ [][NextVisit]_vars

----------------------------------------------------------------------------
(* Code generation when every candidate is taken: the whole loop, up to its *)
(* limit.  The event loop resumes a handler once the query it awaits has    *)
(* resolved, hence the weak fairness of each request's steps.               *)

NextExhaust ==
    \/ \E u \in Users : GetPet(u)
    \/ \E id \in WorldIds, draw \in StuckDraws : WorldOpen(id, JsBoolean(TRUE), draw)
    \/ \E id \in WorldIds, draw \in StuckDraws : WorldPass(id, draw)
    \/ \E id \in WorldIds : WorldUpdate(id)
    \/ \E id \in WorldIds : WorldClose(id, JsBoolean(FALSE))

SpecExhaust ==
    /\ Init
    /\ [][NextExhaust]_vars
    /\ \A id \in WorldIds :
          /\ WF_vars(\E draw \in StuckDraws : WorldPass(id, draw))
          /\ WF_vars(WorldUpdate(id))

----------------------------------------------------------------------------
(* Accounts: one step per request, next to an administrator who deactivates *)
(* and deletes accounts in the database.                                    *)

AccountCommit(out) ==
    /\ Len(out.audit) <= MaxAudit
    /\ out.seq <= MaxAccounts
    /\ users' = out.users
    /\ users_id_seq' = out.seq
    /\ audit_log' = out.audit
    /\ issued' = out.issued
    /\ UNCHANGED << petVars, sessionReqs, proc >>

Register(body, auditOk) ==
    AccountCommit(RegisterHandler(users, users_id_seq, audit_log, issued, body, auditOk))

Login(body, auditOk) ==
    AccountCommit(LoginHandler(users, users_id_seq, audit_log, issued, now, body, auditOk))

Refresh(body) ==
    AccountCommit(RefreshHandler(users, users_id_seq, audit_log, issued, body))

PasswordResetRequest(email, auditOk) ==
    AccountCommit(PasswordResetRequestHandler(users, users_id_seq, audit_log, issued,
                                              email, auditOk))

Logout(header, auditOk) ==
    AccountCommit(LogoutHandler(users, users_id_seq, audit_log, issued, header, auditOk))

\* UPDATE users SET is_active = FALSE WHERE id = $1, by hand
AdminDeactivate(id) ==
    /\ id \in DOMAIN users
    /\ users[id].is_active
    /\ users' = [ users EXCEPT ![id].is_active = FALSE ]
    /\ UNCHANGED << users_id_seq, audit_log, issued, petVars, sessionReqs, proc >>

\* DELETE FROM users WHERE id = $1, by hand; audit_log.user_id is ON DELETE
\* SET NULL
AdminDelete(id) ==
    /\ id \in DOMAIN users
    /\ users' = [ i \in DOMAIN users \ { id } |-> users[i] ]
    /\ audit_log' = [ k \in DOMAIN audit_log |->
                        IF audit_log[k].user_id = id
                        THEN [ audit_log[k] EXCEPT !.user_id = 0 ]
                        ELSE audit_log[k] ]
    /\ UNCHANGED << users_id_seq, issued, petVars, sessionReqs, proc >>

NextAccounts ==
    \/ \E body \in RegisterInputs, ok \in BOOLEAN : Register(body, ok)
    \/ \E body \in LoginInputs, ok \in BOOLEAN : Login(body, ok)
    \/ \E body \in RefreshInputs(issued) : Refresh(body)
    \/ \E email \in EmailInputs, ok \in BOOLEAN : PasswordResetRequest(email, ok)
    \/ \E header \in HeaderInputs(issued), ok \in BOOLEAN : Logout(header, ok)
    \/ \E id \in AccountIds : AdminDeactivate(id)
    \/ \E id \in AccountIds : AdminDelete(id)

SpecAccounts == Init /\ [][NextAccounts]_vars

----------------------------------------------------------------------------
(* The browser session with its requests in flight: syncStats and          *)
(* performAction send a request and await the answer, and the timers and   *)
(* the buttons do not wait for one another, so the server may handle the   *)
(* requests of one session in any order.                                   *)

\* the request of syncStats: the rounded snapshot of this.pet, taken at t
SyncRequest(pet, t) ==
    [ id |-> pet.id, body |-> SyncBody(pet), at |-> t ]

\* the 5 s timer: syncStats up to its await
SyncSend ==
    /\ client # NoClientPet
    /\ Cardinality(syncReq \cup { SyncRequest(client, now) }) <= MaxInFlight
    /\ syncReq' = syncReq \cup { SyncRequest(client, now) }
    /\ UNCHANGED << petVars, actionReq, accountVars, proc >>

\* the server handles a sync request; syncStats does nothing with the answer
SyncDeliver(r) ==
    /\ r \in syncReq
    /\ syncReq' = syncReq \ { r }
    /\ Commit(SyncHandler(pets, memories, r.id, r.body))
    /\ UNCHANGED << pets_id_seq, worldReq, visitReq, getReq, talkReq, client, ticks,
                    actionReq, accountVars, proc >>

\* a button: performAction up to its await
ActionSend(action) ==
    /\ client # NoClientPet
    /\ actionReq.pc = "idle"
    /\ Len(memories) < MaxMem
    /\ actionReq' = [ pc |-> "sent", action |-> action, row |-> NoClientPet ]
    /\ UNCHANGED << petVars, syncReq, accountVars, proc >>

\* the server handles the action request and answers with the row
ActionApply ==
    /\ actionReq.pc = "sent"
    /\ LET out == ActionHandler(pets, memories, now, client.id, actionReq.action)
       IN  /\ Commit(out)
           /\ actionReq' = [ actionReq EXCEPT
                               !.pc = "applied",
                               !.row = ClientPet(client.id, out.pets[client.id]) ]
    /\ UNCHANGED << pets_id_seq, worldReq, visitReq, getReq, talkReq, client, ticks,
                    syncReq, accountVars, proc >>

\* performAction after its await: this.pet = await res.json()
ActionReturn ==
    /\ actionReq.pc = "applied"
    /\ client' = actionReq.row
    /\ actionReq' = IdleAction
    /\ UNCHANGED << pets, memories, pets_id_seq, now, worldReq, visitReq, getReq,
                    talkReq, ticks, syncReq, accountVars, proc >>

NextFlight ==
    \/ ClientFetch
    \/ DecayTick
    \/ SyncSend
    \/ \E r \in syncReq : SyncDeliver(r)
    \/ \E a \in ButtonInputs : ActionSend(a)
    \/ ActionApply
    \/ ActionReturn

SpecFlight == Init /\ [][NextFlight]_vars

----------------------------------------------------------------------------
(* The server process and its signals.  process.on registers a listener;    *)
(* when the signal comes, the listeners run one after the other in the      *)
(* order of their registration, each until it returns or reaches its first  *)
(* await.  db/pool.js is loaded by the require at the top of server.js, so  *)
(* its SIGTERM listener is registered before the one of server.js.          *)

SigtermListeners == << "db/pool.js", "server.js" >>
SigintListeners == << "server.js" >>

\* one listener: db/pool.js calls pool.end() and awaits it, server.js calls
\* process.exit(0); after process.exit nothing runs
RunListener(p, listener) ==
    IF p.exited THEN p
    ELSE IF listener = "db/pool.js" THEN [ p EXCEPT !.pool = "ending" ]
    ELSE [ p EXCEPT !.exited = TRUE ]

RECURSIVE Emit(_, _)
Emit(p, listeners) ==
    IF listeners = << >> THEN p
    ELSE Emit(RunListener(p, Head(listeners)), Tail(listeners))

Sigterm ==
    /\ ~proc.exited
    /\ proc' = Emit([ proc EXCEPT !.signal = "SIGTERM" ], SigtermListeners)
    /\ UNCHANGED << petVars, sessionReqs, accountVars >>

Sigint ==
    /\ ~proc.exited
    /\ proc' = Emit([ proc EXCEPT !.signal = "SIGINT" ], SigintListeners)
    /\ UNCHANGED << petVars, sessionReqs, accountVars >>

\* The continuation of `await pool.end()` belongs to a later turn of the
\* event loop; a process that has exited has none, and the listeners of one
\* signal run in one turn, so the pool gets from "ending" to "ended" only in
\* a process that is still running.

\* the process serves requests until it exits
NextProcess ==
    \/ /\ ~proc.exited
       /\ \/ \E u \in Users : GetPet(u)
          \/ \E id \in PetIds, a \in ValidActions : PetAction(id, a)
          \/ \E id \in PetIds, b \in SyncInputs : Sync(id, b)
    \/ Sigterm
    \/ Sigint

SpecProcess == Init /\ [][NextProcess]_vars

----------------------------------------------------------------------------
(* Properties.  A property of a one-step handler is stated on the handler's *)
(* outcome in every reachable state and for every input explored; a        *)
(* property of a stepped handler is stated on its steps.                   *)

\* C1: after any sequence of creations, actions, syncs with arbitrary numbers
\* and decay ticks, every stored stat of every pet is within [0,100].
C1_StatsInRange ==
    \A id \in DOMAIN pets : \A c \in StatNames :
        pets[id][c] >= 0 /\ pets[id][c] <= 100

\* a pet that was synced with out-of-range numbers and acted on, with the
\* client's decay timer running
C1_Witness ==
    /\ ticks > 0
    /\ \E id \in DOMAIN pets :
          /\ pets[id].hunger = 0
          /\ pets[id].happiness = 100
          /\ Len(MemoriesOf(memories, id)) > 1

\* C2: a valid action on an existing pet sets each stat it names to
\* min(100, max(0, old + delta)) (feed: hunger +30; play: happiness +20,
\* energy -10; clean: hygiene +40; sleep: energy +30) and leaves the other
\* stats as they were.
C2_ActionDeltas ==
    \A id \in DOMAIN pets, a \in ValidActions :
        LET old == pets[id]
            new == ActionHandler(pets, memories, now, id, a).pets[id]
            Bounded(x) == IF x > 100 THEN 100 ELSE IF x < 0 THEN 0 ELSE x
        IN  /\ new.hunger =
                 IF a = "feed" THEN Bounded(old.hunger + 30) ELSE old.hunger
            /\ new.happiness =
                 IF a = "play" THEN Bounded(old.happiness + 20) ELSE old.happiness
            /\ new.energy =
                 IF a = "play" THEN Bounded(old.energy - 10)
                 ELSE IF a = "sleep" THEN Bounded(old.energy + 30)
                 ELSE old.energy
            /\ new.hygiene =
                 IF a = "clean" THEN Bounded(old.hygiene + 40) ELSE old.hygiene

\* a pet synced to hunger 90 and then fed: hunger is 100, not 120
C2_Witness ==
    \E id \in DOMAIN pets :
        LET mine == MemoriesOf(memories, id)
        IN  /\ pets[id].hunger = 100
            /\ pets[id].happiness = 0
            /\ pets[id].energy = 5
            /\ pets[id].hygiene = 100
            /\ mine[Len(mine)].content = << "Owner", "fed", "me!" >>

\* C3: no two pets store the same non-null world code, whatever the
\* interleaving of the open-world requests of different pets.
C3_WorldCodesUnique ==
    \A p, q \in DOMAIN pets :
        (p # q /\ pets[p].world_code # Null) => pets[p].world_code # pets[q].world_code

\* two requests raced for one code: one pet stores it, the other request
\* was answered 500
C3_Witness ==
    \E p, q \in DOMAIN pets :
        /\ p # q
        /\ pets[p].world_code # Null
        /\ pets[q].world_code # pets[p].world_code
        /\ worldReq[q].pc = "done"
        /\ worldReq[q].status = 500

\* C4: a visit of a code that no pet stores, or that a pet with a closed
\* world stores, is answered 404 and changes no visit counter nor anything
\* else that is stored.
C4_VisitNotFound ==
    [][ \A v \in Visitors :
          ( /\ visitReq[v].pc # "update"
            /\ visitReq'[v] # visitReq[v]
            /\ ~ \E p \in DOMAIN pets :
                    /\ pets[p].world_code = visitReq'[v].code
                    /\ pets[p].world_open )
          => ( /\ visitReq'[v].pc = "done"
               /\ visitReq'[v].status = 404
               /\ pets' = pets
               /\ memories' = memories ) ]_vars

\* a visit of the code of a closed world was answered 404
C4_Witness ==
    \E v \in Visitors, p \in DOMAIN pets :
        /\ visitReq[v].pc = "done"
        /\ visitReq[v].status = 404
        /\ pets[p].world_code = visitReq[v].code
        /\ ~pets[p].world_open
        /\ pets[p].visits_count = 0

\* C5: when an open world is opened again (open = true, answered 200) with no
\* close in between, the code stored differs from the code stored before, and
\* the former code is no longer the code of any open world, so that a visit
\* with it finds nothing.
C5_ReopenRegenerates ==
    [][ \A id \in WorldIds :
          ( /\ id \in DOMAIN pets
            /\ worldReq[id].pc = "update"
            /\ worldReq[id].open = JsBoolean(TRUE)
            /\ pets[id].world_open
            /\ pets[id].world_code # Null
            /\ worldReq'[id].pc = "done"
            /\ worldReq'[id].status = 200 )
          => ( /\ pets'[id].world_code # Null
               /\ pets'[id].world_code # pets[id].world_code
               /\ pets'[id].world_open
               /\ ~ \E p \in DOMAIN pets' :
                       /\ pets'[p].world_code = pets[id].world_code
                       /\ pets'[p].world_open ) ]_vars

\* an open world whose owner asked to open it again: the first candidate was
\* the stored code, the second one is about to be written
C5_Witness ==
    \E id \in DOMAIN pets :
        /\ pets[id].world_open
        /\ pets[id].world_code # Null
        /\ worldReq[id].pc = "update"
        /\ worldReq[id].open = JsBoolean(TRUE)
        /\ worldReq[id].attempts = 2
        /\ worldReq[id].code # pets[id].world_code

\* C6: in every reachable state a pet's world_code is non-null exactly when
\* its world_open flag is true.
C6_CodeIffOpen ==
    \A id \in DOMAIN pets : (pets[id].world_code # Null) <=> pets[id].world_open

\* C7: an action request on an existing pet whose action name is not one of
\* feed, play, clean, sleep is answered 400 and changes neither the pet nor
\* the memories.
C7_InvalidActionRejected ==
    \A id \in DOMAIN pets, a \in ActionInputs \ ValidActions :
        LET out == ActionHandler(pets, memories, now, id, a)
        IN  /\ out.res.status = 400
            /\ out.pets = pets
            /\ out.memories = memories

\* C8: a successful action on an existing pet appends exactly one memory,
\* filed under that pet and describing the action; the memories of every
\* other pet stay as they were.
C8_OneMemoryPerAction ==
    \A id \in DOMAIN pets, a \in ValidActions :
        LET out == ActionHandler(pets, memories, now, id, a)
            text == IF a = "feed" THEN << "Owner", "fed", "me!" >>
                    ELSE IF a = "play" THEN << "Owner", "played with", "me!" >>
                    ELSE IF a = "clean" THEN << "Owner", "cleaned", "me!" >>
                    ELSE << "Owner", "put to sleep", "me!" >>
        IN  /\ out.res.status = 200
            /\ Len(out.memories) = Len(memories) + 1
            /\ MemoriesOf(out.memories, id) =
                 Append(MemoriesOf(memories, id),
                        [ pet_id |-> id, memory_type |-> "action", content |-> text,
                          created_at |-> now ])
            /\ \A other \in PetIds \ { id } :
                 MemoriesOf(out.memories, other) = MemoriesOf(memories, other)

\* the second pet played; the first pet has only its birth memory
C8_Witness ==
    /\ DOMAIN pets = { 1, 2 }
    /\ Len(MemoriesOf(memories, 1)) = 1
    /\ Len(MemoriesOf(memories, 2)) = 2
    /\ MemoriesOf(memories, 2)[2].content = << "Owner", "played with", "me!" >>

\* C9: every pet-addressed operation (action, rename, sync, open/close world,
\* talk) on an id that no pet has is answered 404 and changes nothing.
C9_MissingPetNotFound ==
    \A id \in PetIds \ DOMAIN pets :
        /\ \A a \in ValidActions :
             LET out == ActionHandler(pets, memories, now, id, a)
             IN  out.res.status = 404 /\ out.pets = pets /\ out.memories = memories
        /\ LET out == RenameHandler(pets, memories, id, JsString(<< "R", "e", "x" >>))
           IN  out.res.status = 404 /\ out.pets = pets /\ out.memories = memories
        /\ \A b \in SyncInputs :
             LET out == SyncHandler(pets, memories, id, b)
             IN  out.res.status = 404 /\ out.pets = pets /\ out.memories = memories
        /\ \A ok \in BOOLEAN :
             LET out == TalkHandler(pets, memories, now, id, ok)
             IN  out.res.status = 404 /\ out.pets = pets /\ out.memories = memories
        /\ LET out == WorldUpdateStatement(pets, id, JsBoolean(FALSE), Null)
           IN  out.status = 404 /\ out.pets = pets

\* C10 as stated: a sync applied twice leaves what it leaves applied once,
\* and for input within [0,100] the stored stats equal the input.
C10_SyncStoresInput ==
    \A id \in DOMAIN pets, b \in SyncInputs :
        LET once == SyncHandler(pets, memories, id, b)
            twice == SyncHandler(once.pets, once.memories, id, b)
        IN  /\ twice.pets = once.pets
            /\ (\A c \in StatNames : b[c] >= 0 /\ b[c] <= 2 * 100)
                 => \A c \in StatNames : 2 * once.pets[id][c] = b[c]

\* C10, amended: a sync applied twice leaves what it leaves applied once, and
\* for whole-number input within [0,100] the stored stats equal the input.
C10_SyncIdempotent ==
    \A id \in DOMAIN pets, b \in SyncInputs :
        LET once == SyncHandler(pets, memories, id, b)
            twice == SyncHandler(once.pets, once.memories, id, b)
        IN  /\ twice.pets = once.pets
            /\ (\A c \in StatNames : b[c] >= 0 /\ b[c] <= 2 * 100 /\ b[c] % 2 = 0)
                 => ( /\ once.res.status = 200
                      /\ \A c \in StatNames : 2 * once.pets[id][c] = b[c] )

\* a pet that stores the in-range body (90, 0, 5, 100) of a sync
C10_Witness ==
    \E id \in DOMAIN pets :
        /\ pets[id].hunger = 90
        /\ pets[id].happiness = 0
        /\ pets[id].energy = 5
        /\ pets[id].hygiene = 100

\* C11: get-or-create keeps at most one pet per user id, also when the first
\* accesses of two callers for one new user overlap; a pet is created with all
\* four stats at 50; an access that finds the user's pet answers with that
\* pet's id and creates nothing; no step removes a pet or gives it to another
\* user.
C11_OnePetPerUser ==
    /\ [](\A p, q \in DOMAIN pets : p # q => pets[p].user_id # pets[q].user_id)
    /\ [][ /\ \A id \in DOMAIN pets :
                 id \in DOMAIN pets' /\ pets'[id].user_id = pets[id].user_id
           /\ \A id \in DOMAIN pets' \ DOMAIN pets :
                 \A c \in StatNames : pets'[id][c] = 50
           /\ \A c \in Callers :
                 ( /\ getReq[c].pc \in { "idle", "done" }
                   /\ getReq'[c] # getReq[c]
                   /\ SelectByUser(pets, getReq'[c].userId) # {} )
                 => ( /\ getReq'[c].pc = "done"
                      /\ getReq'[c].status = 200
                      /\ getReq'[c].id \in SelectByUser(pets, getReq'[c].userId)
                      /\ pets' = pets
                      /\ memories' = memories ) ]_vars

\* two first accesses for one user overlapped: one created the pet, the other
\* was answered 500, and a later access of the second caller found the pet
C11_Witness ==
    \E a, b \in Callers, id \in DOMAIN pets :
        /\ a # b
        /\ pets_id_seq > Cardinality(DOMAIN pets)
        /\ getReq[a].pc = "done" /\ getReq[a].status = 200 /\ getReq[a].id = id
        /\ getReq[b].pc = "done" /\ getReq[b].status = 200 /\ getReq[b].id = id
        /\ getReq[a].userId = pets[id].user_id
        /\ getReq[b].userId = pets[id].user_id

\* C12: code generation terminates.  A pass is made only while fewer than 100
\* uniqueness checks have collided; after the 100th collision the request is
\* answered 500 and the pet's world_code and world_open stay as they were;
\* every request that entered the loop is answered.
C12_GenerationBounded ==
    /\ [](\A id \in WorldIds : worldReq[id].attempts <= MaxAttempts)
    /\ [][ \A id \in WorldIds :
             (worldReq[id].pc = "generate" /\ worldReq'[id] # worldReq[id])
             => IF worldReq[id].attempts < MaxAttempts
                THEN /\ worldReq'[id].pc \in { "generate", "update" }
                     /\ worldReq'[id].attempts = worldReq[id].attempts + 1
                ELSE /\ worldReq'[id].pc = "done"
                     /\ worldReq'[id].status = 500
                     /\ pets' = pets ]_vars
    /\ \A id \in WorldIds :
          (worldReq[id].pc \in { "generate", "update" }) ~> (worldReq[id].pc = "done")

\* 100 checks have collided with the code another pet stores
C12_Witness ==
    \E id \in DOMAIN pets, other \in DOMAIN pets :
        /\ id # other
        /\ worldReq[id].pc = "generate"
        /\ worldReq[id].attempts = MaxAttempts
        /\ pets[other].world_code = GenCode(<< 0, 1, 2, 3, 24, 25 >>)
        /\ pets[id].world_code = Null

\* C13 as stated: when a request that passed the uniqueness check writes a
\* code that another pet has stored in the meantime, the code is written, and
\* both pets store it.
C13_RaceStoresDuplicate ==
    [][ \A id \in WorldIds :
          ( /\ id \in DOMAIN pets
            /\ worldReq[id].pc = "update"
            /\ worldReq'[id] # worldReq[id]
            /\ \E other \in DOMAIN pets \ { id } :
                  pets[other].world_code = worldReq[id].code )
          => pets'[id].world_code = worldReq[id].code ]_vars

\* C13, amended: the check and the write are separate steps, so two requests
\* can pass the check with one candidate; the write of the second one is
\* rejected by the UNIQUE constraint on world_code, the request is answered
\* 500 and no row changes.
C13_RaceLoserRejected ==
    [][ \A id \in WorldIds :
          ( /\ id \in DOMAIN pets
            /\ worldReq[id].pc = "update"
            /\ worldReq'[id] # worldReq[id]
            /\ \E other \in DOMAIN pets \ { id } :
                  pets[other].world_code = worldReq[id].code )
          => ( /\ worldReq'[id].pc = "done"
               /\ worldReq'[id].status = 500
               /\ pets' = pets ) ]_vars

\* both requests passed the check with one candidate, the first has written
\* it and the second is about to write
C13_Witness ==
    \E p, q \in DOMAIN pets :
        /\ p # q
        /\ worldReq[q].pc = "update"
        /\ worldReq[q].attempts = 1
        /\ worldReq[p].pc = "done"
        /\ worldReq[p].status = 200
        /\ pets[p].world_code = worldReq[q].code
        /\ pets[p].world_open

\* C14: the step that answers a visit with 200 raises the visit counter of
\* the pet it looked up by exactly 1 and leaves the counter of every other pet
\* as it was; no other step changes a visit counter.  Hence n successful
\* visits, however interleaved, raise the counter by exactly n.
C14_VisitCountsOnce ==
    [][ LET Answered(v) == /\ visitReq[v].pc = "update"
                           /\ visitReq'[v].pc = "done"
                           /\ visitReq'[v].status = 200
        IN  /\ \A v \in Visitors :
                 Answered(v) =>
                    \A id \in DOMAIN pets :
                        pets'[id].visits_count =
                            IF id = visitReq[v].id THEN pets[id].visits_count + 1
                            ELSE pets[id].visits_count
            /\ (\A v \in Visitors : ~Answered(v)) =>
                    \A id \in DOMAIN pets :
                        pets'[id].visits_count = pets[id].visits_count ]_vars

\* two visitors have visited one pet and a third visit went to another pet:
\* the counters are 2 and 1
C14_Witness ==
    \E p, q \in DOMAIN pets :
        /\ p # q
        /\ pets[p].visits_count = 2
        /\ pets[q].visits_count = 1
        /\ \A v \in Visitors : visitReq[v].pc = "done" /\ visitReq[v].status = 200
        /\ \E v, w \in Visitors : visitReq[v].id = p /\ visitReq[w].id = q

\* C15: when the call to the LLM fails or times out during a talk request on
\* an existing pet, the request is answered 200 with one of the canned
\* replies, marked as fallback, and nothing is stored; the failure is never
\* answered with an error status.
C15_TalkFallsBack ==
    [][ (talkReq.pc = "llm" /\ talkReq'.llm = "failed")
        => ( /\ talkReq'.pc = "done"
             /\ talkReq'.status = 200
             /\ talkReq'.fallback
             /\ talkReq'.reply \in { "low_stats", "high_stats", "default" }
             /\ talkReq'.id \in DOMAIN pets
             /\ pets' = pets
             /\ memories' = memories ) ]_vars

\* a talk with a pet whose stats average below 40 was answered with the
\* canned reply for low stats
C15_Witness ==
    /\ talkReq.pc = "done"
    /\ talkReq.llm = "failed"
    /\ talkReq.status = 200
    /\ talkReq.fallback
    /\ talkReq.reply = "low_stats"

\* C16: a decay tick lowers the client's hunger by 1 and its happiness,
\* energy and hygiene by 0.5 each, and a stat that would fall below 0 becomes
\* 0; no stat the client holds is ever negative.  (Half units: 1 is 2.)
C16_DecayFloored ==
    /\ [](\A c \in StatNames : client[c] >= 0)
    /\ [][ ticks' # ticks =>
             LET Floored(x) == IF x < 0 THEN 0 ELSE x
             IN  /\ client'.hunger = Floored(client.hunger - 2)
                 /\ client'.happiness = Floored(client.happiness - 1)
                 /\ client'.energy = Floored(client.energy - 1)
                 /\ client'.hygiene = Floored(client.hygiene - 1)
                 /\ client'.id = client.id ]_vars

\* after a tick on a pet fetched with hunger 0, hygiene 0 and the others at
\* 100: hunger and hygiene are still 0, the others are 99.5
C16_Witness ==
    /\ ticks > 0
    /\ client.hunger = 0
    /\ client.hygiene = 0
    /\ client.happiness = 199
    /\ client.energy = 199

C18_MemoryLog ==
    /\ [][ /\ Len(memories) <= Len(memories')
           /\ \A i \in 1..Len(memories) : memories'[i] = memories[i] ]_vars
    /\ [](LET IsPrefix(a, b) == Len(a) <= Len(b) /\ \A i \in 1..Len(a) : a[i] = b[i]
           IN  /\ \A u \in Users :
                    IsPrefix(memories,
                             GetPetHandler(pets, memories, pets_id_seq, now, u).memories)
               /\ \A id \in PetIds :
                    /\ \A a \in ActionInputs :
                         IsPrefix(memories, ActionHandler(pets, memories, now, id, a).memories)
                    /\ \A n \in NameInputs :
                         IsPrefix(memories, RenameHandler(pets, memories, id, n).memories)
                    /\ \A b \in SyncInputs :
                         IsPrefix(memories, SyncHandler(pets, memories, id, b).memories)
                    /\ \A ok \in BOOLEAN :
                         IsPrefix(memories, TalkHandler(pets, memories, now, id, ok).memories))
    /\ [](\A id \in PetIds :
            LET mine == MemoriesOf(memories, id)
                read == MemoriesHandler(memories, id)
                prompt == PromptMemories(memories, id)
                Least(a, b) == IF a < b THEN a ELSE b
            IN  /\ \A i, j \in 1..Len(mine) :
                     i < j => mine[i].created_at < mine[j].created_at
                /\ Len(read) = Least(Len(mine), 50)
                /\ \A k \in 1..Len(read) :
                     LET row == mine[Len(mine) - k + 1]
                     IN  /\ read[k].content = row.content
                         /\ read[k].memory_type = row.memory_type
                         /\ read[k].created_at = row.created_at
                /\ Len(prompt) = Least(Len(mine), 5)
                /\ \A k \in 1..Len(prompt) :
                     prompt[k] = mine[Len(mine) - k + 1].content)

\* a pet with 51 memories, the newest of them a feeding, while the birth of
\* the other pet lies between them: the read leaves out the oldest one
C18_Witness ==
    \E id \in DOMAIN pets, other \in DOMAIN pets :
        /\ id # other
        /\ Len(MemoriesOf(memories, id)) = 51
        /\ Len(MemoriesHandler(memories, id)) = 50
        /\ MemoriesHandler(memories, id)[1].content = << "Owner", "fed", "me!" >>
        /\ MemoriesHandler(memories, id)[50].content = << "Owner", "fed", "me!" >>
        /\ memories[1].pet_id = id
        /\ memories[10].pet_id = other
        /\ Len(MemoriesHandler(memories, other)) = 1

\* C19: every world code a pet stores has four characters, a hyphen and two
\* characters, each of the six an uppercase letter or a digit other than 0, 1,
\* O and I; the alphabet the characters are drawn from holds no other
\* character.
C19_CodeFormat ==
    LET Letters == { "A", "B", "C", "D", "E", "F", "G", "H", "I", "J", "K", "L", "M",
                     "N", "O", "P", "Q", "R", "S", "T", "U", "V", "W", "X", "Y", "Z" }
        Digits == { "0", "1", "2", "3", "4", "5", "6", "7", "8", "9" }
        Allowed == (Letters \cup Digits) \ { "0", "1", "O", "I" }
        WellFormed(code) ==
            /\ Len(code) = 7
            /\ code[5] = "-"
            /\ \A i \in { 1, 2, 3, 4, 6, 7 } : code[i] \in Allowed
    IN  /\ \A id \in DOMAIN pets :
             pets[id].world_code # Null => WellFormed(pets[id].world_code)
        /\ \A i \in DOMAIN chars : chars[i] \in Allowed

\* two open worlds, one under the code ABCD-23 and one under XYZA-99
C19_Witness ==
    \E p, q \in DOMAIN pets :
        /\ pets[p].world_code = << "A", "B", "C", "D", "-", "2", "3" >>
        /\ pets[q].world_code = << "X", "Y", "Z", "A", "-", "9", "9" >>
        /\ pets[p].world_open
        /\ pets[q].world_open

\* C20: a rename on an existing pet with no name, the empty name or a name of
\* more than 20 characters is answered 400 and changes nothing; the stored
\* name of every pet has between 1 and 20 characters.
C20_RenameValidated ==
    /\ \A id \in DOMAIN pets, n \in NameInputs :
          (n.type = "undefined" \/ (n.type = "string" /\ Len(n.chars) \notin 1..20))
          => LET out == RenameHandler(pets, memories, id, n)
             IN  /\ out.res.status = 400
                 /\ out.pets = pets
                 /\ out.memories = memories
    /\ \A id \in DOMAIN pets : Len(pets[id].name) \in 1..20

\* one pet was renamed to Rex, the other one still has the name it was
\* created with
C20_Witness ==
    \E p, q \in DOMAIN pets :
        /\ pets[p].name = << "R", "e", "x" >>
        /\ pets[q].name = << "B", "u", "d", "d", "y" >>
        /\ Len(memories) = 2

\* C21: with a client session running, each decay tick lowers every stat the
\* client holds that is above 0, and the next sync after a tick stores, for
\* every such stat, a value strictly lower than the value stored before the
\* tick.  (The sync step meant is the session's own sync, sent while the
\* client holds the stored row after one tick and the store still holds the
\* row from before the tick.)
C21_DecayReachesStore ==
    /\ [][ ticks' # ticks =>
             \A c \in StatNames : client[c] > 0 => client'[c] < client[c] ]_vars
    /\ [][ ( /\ client # NoClientPet
             /\ client.id \in DOMAIN pets
             /\ client = Decay(ClientPet(client.id, pets[client.id]))
             /\ client' = client
             /\ pets' = SyncHandler(pets, memories, client.id, SyncBody(client)).pets )
           => \A c \in StatNames :
                  pets[client.id][c] > 0 => pets'[client.id][c] < pets[client.id][c] ]_vars

C23_AuthenticateGuards ==
    \A header \in HeaderInputs(issued) :
        LET auth == Authenticate(users, header)
            tk == header.token
            Bearer == header.present /\ header.scheme = "Bearer "
            Verifies == tk.secret = JWT_SECRET /\ ~tk.expired
            Known == tk.payload.id \in DOMAIN users
            Active == Known /\ users[tk.payload.id].is_active
        IN  /\ auth.next <=> (Bearer /\ Verifies /\ Active)
            /\ auth.next => auth.user = tk.payload.id /\ auth.status = 0
            /\ ~auth.next =>
                  auth.status = IF Bearer /\ Verifies /\ Known THEN 403 ELSE 401

\* a user who has logged out through the middleware, was then deactivated
\* and deleted: the token that was admitted is answered 401 now
C23_Witness ==
    /\ \E k \in DOMAIN audit_log : audit_log[k].action = "logout"
    /\ \E tk \in issued :
          /\ tk.payload.id \notin DOMAIN users
          /\ Authenticate(users, Header("Bearer ", tk)).status = 401
          /\ Authenticate(users, Header("Bearer ", tk)).message = "User not found"

\* C24: the refresh endpoint answers 200 with a new access token for the
\* token's user exactly when the submitted token verifies, has type
\* 'refresh' and belongs to an existing, active user; for any other
\* submitted token (a valid access or password-reset token, an expired or
\* forged one, a refresh token of an inactive or deleted user) it answers 401
\* and issues no token; it writes no table.
C24_RefreshGuards ==
    \A body \in RefreshInputs(issued) :
        LET out == RefreshHandler(users, users_id_seq, audit_log, issued, body)
            tk == body.token
            Verifies == tk.secret = JWT_SECRET /\ ~tk.expired
            IsRefresh == "type" \in DOMAIN tk.payload /\ tk.payload.type = "refresh"
            Active == tk.payload.id \in DOMAIN users /\ users[tk.payload.id].is_active
            Good == Verifies /\ IsRefresh /\ Active
        IN  /\ out.users = users
            /\ out.audit = audit_log
            /\ body.present /\ Good =>
                  /\ out.res.status = 200
                  /\ \E new \in out.res.tokens :
                        /\ out.res.tokens = { new }
                        /\ out.issued = issued \cup { new }
                        /\ new.payload.id = tk.payload.id
                        /\ "type" \notin DOMAIN new.payload
                        /\ verifyToken(new) = [ decoded |-> new.payload ]
            /\ body.present /\ ~Good =>
                  /\ out.res.status = 401
                  /\ out.res.tokens = { }
                  /\ out.issued = issued
            /\ ~body.present => out.res.tokens = { } /\ out.issued = issued

\* a user who has refreshed (the access token of a refresh carries the role
\* of the row) and asked for a password reset, and was deactivated then: the
\* refresh token the user holds is answered 401 now
C24_Witness ==
    \E tk, rt \in issued :
        /\ "role" \in DOMAIN tk.payload
        /\ tk.payload.role = "user"
        /\ tk.payload.id \in DOMAIN users
        /\ users[tk.payload.id].password_reset_token # { }
        /\ ~users[tk.payload.id].is_active
        /\ TypeIs(rt.payload, "refresh")
        /\ rt.payload.id = tk.payload.id
        /\ RefreshHandler(users, users_id_seq, audit_log, issued,
                          Header("", rt)).res.status = 401

\* C25: a password-reset request does not reveal whether an address is
\* registered: for an address submitted, the response (status and body) with
\* the account of that address in the table is the response without it,
\* whether or not the audit record can be written.
C25_ResetDoesNotDisclose ==
    \A email \in EmailInputs \ { << >> }, ok \in BOOLEAN :
        \A id \in SelectByEmail(users, email) :
            LET without == [ i \in DOMAIN users \ { id } |-> users[i] ]
                with == PasswordResetRequestHandler(users, users_id_seq, audit_log,
                                                    issued, email, ok)
                base == PasswordResetRequestHandler(without, users_id_seq, audit_log,
                                                    issued, email, ok)
            IN  with.res = base.res

\* C26: logAudit never throws: when the INSERT into audit_log fails it
\* returns null and leaves the table as it was.  So a login or a registration
\* whose audit record cannot be written is answered as the same request whose
\* record is written: a successful login with 200, a successful registration
\* with 201, both with an access and a refresh token, and the same rows in
\* users.
C26_AuditNeverBreaks ==
    /\ \A id \in DOMAIN users, ok \in BOOLEAN :
          LET log == logAudit(audit_log, users[id], id, "login", "login", ok)
          IN  /\ ~log.threw
              /\ ~ok => log.null /\ log.audit = audit_log
              /\ ok => ~log.null /\ Len(log.audit) = Len(audit_log) + 1
    /\ \A body \in LoginInputs :
          LET failed == LoginHandler(users, users_id_seq, audit_log, issued, now, body, FALSE)
              logged == LoginHandler(users, users_id_seq, audit_log, issued, now, body, TRUE)
              Right == \E id \in DOMAIN users :
                          /\ users[id].email = body.email
                          /\ users[id].is_active
                          /\ body.password = Password
          IN  /\ failed.res = logged.res
              /\ failed.users = logged.users
              /\ failed.issued = logged.issued
              /\ failed.audit = audit_log
              /\ Right => /\ failed.res.status = 200
                          /\ Cardinality(failed.res.tokens) = 2
                          /\ failed.res.tokens \subseteq failed.issued
    /\ \A body \in RegisterInputs :
          LET failed == RegisterHandler(users, users_id_seq, audit_log, issued, body, FALSE)
              logged == RegisterHandler(users, users_id_seq, audit_log, issued, body, TRUE)
              Fresh == /\ body \in ValidRegisterInputs
                       /\ \A id \in DOMAIN users :
                             users[id].email # body.email /\ users[id].username # body.username
          IN  /\ failed.res = logged.res
              /\ failed.users = logged.users
              /\ failed.issued = logged.issued
              /\ failed.audit = audit_log
              /\ Fresh => /\ failed.res.status = 201
                          /\ Cardinality(failed.res.tokens) = 2
                          /\ failed.res.tokens \subseteq failed.issued

\* a user who has registered and logged in and holds the tokens, while no
\* audit record could be written
C26_Witness ==
    /\ audit_log = << >>
    /\ \E id \in DOMAIN users :
          /\ users[id].last_login_at # NoTime
          /\ generateRefreshToken(users[id]) \in issued
    /\ Cardinality(issued) >= 2

\* C30: token types are not interchangeable: authenticate calls the next
\* handler only for a bearer token that was issued as an access token (its
\* claims carry no type), and a refresh or password-reset token is answered
\* 401, also when it is validly signed, unexpired and of an active user.
C30_TokenTypesSeparate ==
    \A header \in HeaderInputs(issued) :
        LET auth == Authenticate(users, header)
            claims == header.token.payload
        IN  /\ auth.next => "type" \notin DOMAIN claims
            /\ (TypeIs(claims, "refresh") \/ TypeIs(claims, "password_reset"))
               => auth.status = 401

\* C27: when the process has exited on SIGTERM, the database pool is closed:
\* pool.end() has completed.
C27_PoolClosedBeforeExit ==
    (proc.exited /\ proc.signal = "SIGTERM") => proc.pool = "ended"

\* C29: with a single client session a sync never undoes an action: the
\* server never handles a sync request whose snapshot was taken before an
\* action that the server has handled since, so the stats an action has
\* stored are not overwritten with the values from before it.
C29_SyncNeverUndoesAction ==
    [][ \A r \in syncReq :
          ( /\ syncReq' = syncReq \ { r }
            /\ pets' = SyncHandler(pets, memories, r.id, r.body).pets )
          => r.at = now ]_vars

====
